---------------------------- MODULE Spec2Model ----------------------------
(***************************************************************************)
(* Model of JobSession (secret_store/src/key_server_cluster/jobs/          *)
(* job_session.rs): the request/response session a master node drives     *)
(* over a set of nodes, and the slave side that answers it.                *)
(*                                                                         *)
(* One behaviour is the life of one JobSession object.  Its SessionMeta    *)
(* (self_node_id, threshold; master_node_id is fixed) is chosen in Init    *)
(* and never changes.  Every public method is one action; the values the   *)
(* Executor and the Transport hand back (an Err from prepare/process/      *)
(* check/send) are inputs of the action.  The Executor is the              *)
(* SquaredSumJobExecutor of the file's tests.                              *)
(*                                                                         *)
(* initialize() states its caller contract with debug_assert! (called on   *)
(* the master, with at least threshold+1 nodes); the model calls it        *)
(* within that contract.  An .expect() on an absent active_data is a       *)
(* panic: the call ends with res = "Panic" and the object is untouched.    *)
(***************************************************************************)
EXTENDS Naturals, FiniteSets, Sequences, TLC

\* Bounds of the model.
MaxNode == 3
MaxThreshold == 2
MaxPayload == 2

\* SessionMeta.master_node_id as the tests' make_*_session_meta build it.
master_node_id == 1

NodeIds == 1..MaxNode
Payloads == 1..MaxPayload

VARIABLES
    self_node_id,   \* meta.self_node_id
    threshold,      \* meta.threshold
    state,          \* data.state
    active_data,    \* data.active_data (Option; .some = FALSE is None)
    sent,           \* messages the last call handed to the transport, in order
    op,             \* the last call: its name and arguments
    res,            \* what the last call returned
    session_timed_out,  \* history: on_session_timeout has been called
    init_nodes      \* history: the node set initialize built active_data from

vars == <<self_node_id, threshold, state, active_data, sent, op, res,
          session_timed_out, init_nodes>>

JobSessionState == {"Inactive", "Active", "Finished", "Failed"}

EmptyResponses == [n \in {} |-> 0]

\* active_data: None
None == [some |-> FALSE, requests |-> {}, rejects |-> {}, responses |-> EmptyResponses]

\* Some(ActiveJobSessionData { requests, rejects, responses })
ActiveJobSessionData(requests, rejects, responses) ==
    [some |-> TRUE, requests |-> requests, rejects |-> rejects, responses |-> responses]

is_master == self_node_id = master_node_id

(***************************************************************************)
(* SquaredSumJobExecutor                                                   *)
(***************************************************************************)
prepare_partial_request == 2

process_partial_request(r) == r * r

check_partial_response(r) == r % 2 = 0

RECURSIVE SumOver(_, _)
SumOver(f, S) ==
    IF S = {} THEN 0
    ELSE LET n == CHOOSE x \in S : TRUE IN f[n] + SumOver(f, S \ {n})

compute_response(responses) == SumOver(responses, DOMAIN responses)

(***************************************************************************)
(* Transport messages                                                      *)
(***************************************************************************)
PartialRequestMsg(node, request) == [kind |-> "request", to |-> node, payload |-> request]

PartialResponseMsg(node, response) == [kind |-> "response", to |-> node, payload |-> response]

\* The set S as the sequence a BTreeSet iterates it in: ascending.
RECURSIVE Ascending(_)
Ascending(S) ==
    IF S = {} THEN <<>>
    ELSE LET m == CHOOSE x \in S : \A y \in S : x <= y
         IN <<m>> \o Ascending(S \ {m})

(***************************************************************************)
(* The outcome of a call: the new data, what was returned, what was sent.  *)
(***************************************************************************)
Outcome(st, ad, r, msgs) == [state |-> st, active_data |-> ad, res |-> r, sent |-> msgs]

\* What an Executor or Transport call of the handler may answer with an Err:
\* "none" is the run in which every call answers Ok.
Faults == {"none", "prepare", "process", "check", "send"}

(***************************************************************************)
(* The conditions the handlers branch on.                                  *)
(***************************************************************************)
\* Mutant: a Failed session may be initialized again.
initialize_allowed_or_failed(st) == st \in {"Inactive", "Failed"}

\* Mutant: initialize takes on_partial_request's state guard.
initialize_allowed_or_finished(st) == st \in {"Inactive", "Finished"}

\* initialize: self.data.state != Inactive => InvalidStateForRequest
initialize_allowed(st) == st = "Inactive"

\* Mutant: on_partial_request answers once only.
request_allowed_once(st) == st = "Inactive"

\* Mutant: on_partial_request only refuses a session that is Active.
request_allowed_unless_active(st) == st /= "Active"

\* on_partial_request: state is Inactive or Finished
request_allowed(st) == st \in {"Inactive", "Finished"}

\* Mutant: on_partial_response only refuses an uninitialized session.
response_allowed_unless_inactive(st) == st /= "Inactive"

\* on_partial_response: state is Active or Finished
response_allowed(st) == st \in {"Active", "Finished"}

\* Mutant: a node that has been rejected is still taken as requested.
requested_or_rejected(ad, node) == node \in ad.requests \cup ad.rejects

\* Mutant: a node that has already responded is still taken as requested.
requested_or_responded(ad, node) == node \in ad.requests \cup DOMAIN ad.responses

\* on_partial_response: active_data.requests.remove(node) found the node
requested(ad, node) == node \in ad.requests

\* self.executor.check_partial_response(&response).unwrap_or(false)
response_is_valid(response, fault) ==
    IF fault = "check" THEN FALSE ELSE check_partial_response(response)

\* Mutant: the rejection fails the session while exactly threshold+1 nodes are left.
reject_keeps_quorum_strict(ad) ==
    Cardinality(ad.requests) + Cardinality(DOMAIN ad.responses) > threshold + 1

\* on_partial_response: requests.len() + responses.len() >= threshold + 1
reject_keeps_quorum(ad) ==
    Cardinality(ad.requests) + Cardinality(DOMAIN ad.responses) >= threshold + 1

\* Mutant: off by one, threshold+1 responses are not yet enough.
quorum_missing_off_by_one(ad) == Cardinality(DOMAIN ad.responses) <= threshold + 1

\* on_partial_response: responses.len() < threshold + 1
quorum_missing(ad) == Cardinality(DOMAIN ad.responses) < threshold + 1

\* Mutant: off by one, threshold nodes left are taken for a quorum.
timeout_keeps_quorum_one_short(ad) ==
    Cardinality(ad.requests) + Cardinality(DOMAIN ad.responses) >= threshold

\* Mutant: the timeout counts the rejected nodes too, and never fails the session.
timeout_keeps_quorum_counting_rejects(ad) ==
    Cardinality(ad.requests) + Cardinality(DOMAIN ad.responses)
        + Cardinality(ad.rejects) >= threshold + 1

\* on_node_timeout: requests.len() + responses.len() >= threshold + 1
timeout_keeps_quorum(ad) ==
    Cardinality(ad.requests) + Cardinality(DOMAIN ad.responses) >= threshold + 1

(***************************************************************************)
(* Updates of ActiveJobSessionData.                                        *)
(***************************************************************************)
\* responses.insert(node, response)
insert_response(responses, node, response) ==
    [n \in DOMAIN responses \cup {node} |-> IF n = node THEN response ELSE responses[n]]

\* responses.remove(node)
remove_response(responses, node) ==
    [n \in DOMAIN responses \ {node} |-> responses[n]]

\* on_partial_response, check failed: requests.remove(node); rejects.insert(node)
reject_response(ad, node) ==
    [ad EXCEPT !.requests = @ \ {node}, !.rejects = @ \cup {node}]

\* Mutant: the accepted response is not stored.
accept_response_not_stored(ad, node, response) ==
    [ad EXCEPT !.requests = @ \ {node}]

\* on_partial_response, check passed: requests.remove(node); responses.insert(node, response)
accept_response(ad, node, response) ==
    [ad EXCEPT !.requests = @ \ {node},
               !.responses = insert_response(@, node, response)]

\* Mutant: a timed out node's accepted response is kept.
reject_timed_out_keeping_response(ad, node) ==
    [ad EXCEPT !.requests = @ \ {node}, !.rejects = @ \cup {node}]

\* on_node_timeout: requests.remove(node) || responses.remove(node).is_some(),
\* then rejects.insert(node)
reject_timed_out(ad, node) ==
    IF node \in ad.requests
    THEN [ad EXCEPT !.requests = @ \ {node}, !.rejects = @ \cup {node}]
    ELSE [ad EXCEPT !.responses = remove_response(@, node), !.rejects = @ \cup {node}]

\* Mutant: the session timeout spares a Finished session.
timed_out_state_unless_finished(st) == IF st = "Finished" THEN st ELSE "Failed"

\* on_session_timeout: self.data.state = Failed
timed_out_state(st) == "Failed"

(***************************************************************************)
(* The handlers, as functions of the data they read.                       *)
(***************************************************************************)
on_partial_response(st, ad, node, response, fault) ==
    IF ~is_master THEN Outcome(st, ad, "InvalidMessage", <<>>)
    ELSE IF ~response_allowed(st) THEN Outcome(st, ad, "InvalidStateForRequest", <<>>)
    ELSE IF ~ad.some THEN Outcome(st, ad, "Panic", <<>>)
    ELSE IF ~requested(ad, node) THEN Outcome(st, ad, "InvalidNodeForRequest", <<>>)
    ELSE IF ~response_is_valid(response, fault)
    THEN LET rejected == reject_response(ad, node) IN
         IF reject_keeps_quorum(rejected)
         THEN Outcome(st, rejected, "Ok", <<>>)
         ELSE Outcome("Failed", rejected, "ConsensusUnreachable", <<>>)
    ELSE LET accepted == accept_response(ad, node, response) IN
         IF quorum_missing(accepted)
         THEN Outcome(st, accepted, "Ok", <<>>)
         ELSE Outcome("Finished", accepted, "Ok", <<>>)

\* Mutant: on_partial_request looks at the state before it looks at the sender.
on_partial_request_state_first(st, ad, node, request, fault) ==
    IF ~request_allowed(st) THEN Outcome(st, ad, "InvalidStateForRequest", <<>>)
    ELSE IF node /= master_node_id THEN Outcome(st, ad, "InvalidMessage", <<>>)
    ELSE IF is_master THEN Outcome(st, ad, "InvalidMessage", <<>>)
    ELSE IF fault = "process" THEN Outcome("Finished", ad, "ExecutorError", <<>>)
    ELSE IF fault = "send" THEN Outcome("Finished", ad, "TransportError", <<>>)
    ELSE Outcome("Finished", ad, "Ok",
                 <<PartialResponseMsg(node, process_partial_request(request))>>)

on_partial_request(st, ad, node, request, fault) ==
    IF node /= master_node_id THEN Outcome(st, ad, "InvalidMessage", <<>>)
    ELSE IF is_master THEN Outcome(st, ad, "InvalidMessage", <<>>)
    ELSE IF ~request_allowed(st) THEN Outcome(st, ad, "InvalidStateForRequest", <<>>)
    ELSE IF fault = "process" THEN Outcome("Finished", ad, "ExecutorError", <<>>)
    ELSE IF fault = "send" THEN Outcome("Finished", ad, "TransportError", <<>>)
    ELSE Outcome("Finished", ad, "Ok",
                 <<PartialResponseMsg(node, process_partial_request(request))>>)

\* Mutant: a slave gives up on the timeout of any node.
on_node_timeout_of_any_peer(st, ad, node) ==
    IF ~is_master
    THEN Outcome("Failed", ad, "NodeDisconnected", <<>>)
    ELSE IF ~ad.some THEN Outcome(st, ad, "Panic", <<>>)
    ELSE IF node \in ad.rejects THEN Outcome(st, ad, "Ok", <<>>)
    ELSE IF node \in ad.requests \/ node \in DOMAIN ad.responses
    THEN LET rejected == reject_timed_out(ad, node) IN
         IF timeout_keeps_quorum(rejected)
         THEN Outcome(st, rejected, "Ok", <<>>)
         ELSE Outcome("Failed", rejected, "NodeDisconnected", <<>>)
    ELSE Outcome(st, ad, "Ok", <<>>)

on_node_timeout(st, ad, node) ==
    IF ~is_master
    THEN IF node /= master_node_id
         THEN Outcome(st, ad, "Ok", <<>>)
         ELSE Outcome("Failed", ad, "NodeDisconnected", <<>>)
    ELSE IF ~ad.some THEN Outcome(st, ad, "Panic", <<>>)
    ELSE IF node \in ad.rejects THEN Outcome(st, ad, "Ok", <<>>)
    ELSE IF node \in ad.requests \/ node \in DOMAIN ad.responses
    THEN LET rejected == reject_timed_out(ad, node) IN
         IF timeout_keeps_quorum(rejected)
         THEN Outcome(st, rejected, "Ok", <<>>)
         ELSE Outcome("Failed", rejected, "NodeDisconnected", <<>>)
    ELSE Outcome(st, ad, "Ok", <<>>)

on_session_timeout(st, ad) == Outcome(timed_out_state(st), ad, "Ok", <<>>)

\* Mutant: the loop does not skip self.
SentRequests_to_self_too(nodes, k) ==
    LET all == Ascending(nodes)
    IN [i \in 1..k |-> PartialRequestMsg(all[i], prepare_partial_request)]

\* The requests initialize's loop sends: one to each of the first k nodes
\* other than self, in the set's order.
SentRequests(nodes, k) ==
    LET others == Ascending(nodes \ {self_node_id})
    IN [i \in 1..k |-> PartialRequestMsg(others[i], prepare_partial_request)]

\* k: how many sends of the loop went through before `fault` struck; the
\* loop has Cardinality(nodes \ {self}) sends.
initialize(st, ad, nodes, fault, k) ==
    LET n_others == Cardinality(nodes \ {self_node_id})
        waits_for_self == self_node_id \in nodes
        fresh == ActiveJobSessionData(nodes, {}, EmptyResponses)
    IN  IF ~initialize_allowed(st) THEN Outcome(st, ad, "InvalidStateForRequest", <<>>)
        ELSE IF fault = "prepare" /\ k < n_others
        THEN Outcome(st, ad, "ExecutorError", SentRequests(nodes, k))
        ELSE IF fault = "send" /\ k < n_others
        THEN Outcome(st, ad, "TransportError", SentRequests(nodes, k))
        ELSE IF ~waits_for_self
        THEN Outcome("Active", fresh, "Ok", SentRequests(nodes, n_others))
        ELSE IF fault \in {"prepare", "process"}
        THEN Outcome("Active", fresh, "ExecutorError", SentRequests(nodes, n_others))
        ELSE LET own == on_partial_response("Active", fresh, self_node_id,
                            process_partial_request(prepare_partial_request), fault)
             IN Outcome(own.state, own.active_data, own.res, SentRequests(nodes, n_others))

\* result(): Err(InvalidStateForRequest) unless Finished, else the aggregate
result ==
    IF state /= "Finished" THEN [ok |-> FALSE, err |-> "InvalidStateForRequest", value |-> 0]
    ELSE [ok |-> TRUE, err |-> "", value |-> compute_response(active_data.responses)]

\* requests()
requests == active_data.requests

(***************************************************************************)
(* The state machine.                                                      *)
(***************************************************************************)
Call(name, node, nodes, payload, fault) ==
    [name |-> name, node |-> node, nodes |-> nodes, payload |-> payload, fault |-> fault]

Init ==
    /\ self_node_id \in NodeIds
    /\ threshold \in 0..MaxThreshold
    /\ state = "Inactive"
    /\ active_data = None
    /\ sent = <<>>
    /\ op = Call("new", 0, {}, 0, "none")
    /\ res = "Ok"
    /\ session_timed_out = FALSE
    /\ init_nodes = {}

Return(o) ==
    /\ state' = o.state
    /\ active_data' = o.active_data
    /\ res' = o.res
    /\ sent' = o.sent
    /\ UNCHANGED <<self_node_id, threshold>>

\* An Err can only be the answer of a call the handler makes: the fault an
\* action draws is one of a call that this run of the handler reaches.
initialize_calls(st, nodes, fault, k) ==
    LET n_others == Cardinality(nodes \ {self_node_id}) IN
    CASE fault = "none"    -> k = n_others
      [] fault = "send"    -> initialize_allowed(st) /\ k < n_others
      [] fault = "prepare" -> initialize_allowed(st)
                              /\ (k < n_others \/ (k = n_others /\ self_node_id \in nodes))
      [] fault = "process" -> initialize_allowed(st) /\ k = n_others /\ self_node_id \in nodes
      [] fault = "check"   -> initialize_allowed(st) /\ k = n_others /\ self_node_id \in nodes

on_partial_request_calls(st, node, fault) ==
    fault /= "none" => (node = master_node_id /\ ~is_master /\ request_allowed(st))

on_partial_response_calls(st, ad, node, fault) ==
    fault /= "none" => (is_master /\ response_allowed(st) /\ ad.some /\ requested(ad, node))

InitializeWith(nodes) ==
    \E fault \in Faults, k \in 0..Cardinality(nodes \ {self_node_id}) :
        /\ is_master
        /\ Cardinality(nodes) >= threshold + 1
        /\ initialize_calls(state, nodes, fault, k)
        /\ Return(initialize(state, active_data, nodes, fault, k))
        /\ op' = Call("initialize", 0, nodes, 0, fault)
        /\ init_nodes' = IF ~active_data.some /\ active_data'.some THEN nodes ELSE init_nodes
        /\ UNCHANGED session_timed_out

Initialize == \E nodes \in SUBSET NodeIds : InitializeWith(nodes)

OnPartialRequest ==
    \E node \in NodeIds, request \in Payloads, fault \in {"none", "process", "send"} :
        /\ on_partial_request_calls(state, node, fault)
        /\ Return(on_partial_request(state, active_data, node, request, fault))
        /\ op' = Call("on_partial_request", node, {}, request, fault)
        /\ UNCHANGED <<session_timed_out, init_nodes>>

OnPartialResponseFrom(node) ==
    \E response \in Payloads, fault \in {"none", "check"} :
        /\ on_partial_response_calls(state, active_data, node, fault)
        /\ Return(on_partial_response(state, active_data, node, response, fault))
        /\ op' = Call("on_partial_response", node, {}, response, fault)
        /\ UNCHANGED <<session_timed_out, init_nodes>>

OnPartialResponse == \E node \in NodeIds : OnPartialResponseFrom(node)

OnNodeTimeoutOf(node) ==
    /\ Return(on_node_timeout(state, active_data, node))
    /\ op' = Call("on_node_timeout", node, {}, 0, "none")
    /\ UNCHANGED <<session_timed_out, init_nodes>>

OnNodeTimeout == \E node \in NodeIds : OnNodeTimeoutOf(node)

OnSessionTimeout ==
    /\ Return(on_session_timeout(state, active_data))
    /\ op' = Call("on_session_timeout", 0, {}, 0, "none")
    /\ session_timed_out' = TRUE
    /\ UNCHANGED init_nodes

Next ==
    \/ Initialize
    \/ OnPartialRequest
    \/ OnPartialResponse
    \/ OnNodeTimeout
    \/ OnSessionTimeout

Spec == Init /\ [][Next]_vars

\* Every node of requests is eventually heard of: its partial response is
\* delivered or the cluster reports its timeout.
RequestedNodeAnswers ==
    \E node \in active_data.requests : OnPartialResponseFrom(node) \/ OnNodeTimeoutOf(node)

FairSpec == Spec /\ WF_vars(RequestedNodeAnswers)

\* The master's session over one node more than NodeIds holds.
WideNodeIds == 1..(MaxNode + 1)

WideInit == Init /\ is_master

WideNext ==
    \/ \E nodes \in SUBSET WideNodeIds : InitializeWith(nodes)
    \/ OnPartialRequest
    \/ \E node \in WideNodeIds : OnPartialResponseFrom(node)
    \/ \E node \in WideNodeIds : OnNodeTimeoutOf(node)
    \/ OnSessionTimeout

WideSpec == WideInit /\ [][WideNext]_vars

TypeOK ==
    /\ state \in JobSessionState
    /\ active_data.some \in BOOLEAN
    /\ active_data.requests \subseteq WideNodeIds
    /\ active_data.rejects \subseteq WideNodeIds
    /\ DOMAIN active_data.responses \subseteq WideNodeIds
    /\ init_nodes \subseteq WideNodeIds

Requests == active_data.requests
Rejects == active_data.rejects
Responses == DOMAIN active_data.responses
Quorum == threshold + 1

(***************************************************************************)
(* C1.  On a master, whenever the state is Finished, responses holds at    *)
(* least threshold+1 accepted partial responses (so result() never         *)
(* aggregates fewer).  The code breaks this: on_node_timeout of a node     *)
(* whose response was accepted removes the response and leaves Finished.   *)
(***************************************************************************)
C1_FinishedHasQuorum ==
    (is_master /\ state = "Finished") => Cardinality(Responses) >= Quorum

(***************************************************************************)
(* C2.  Finished is terminal: once the state is Finished no call changes   *)
(* it to anything other than Finished.                                     *)
(* This is the claim as stated; on_session_timeout (and on_node_timeout)   *)
(* take a Finished session to Failed.                                      *)
(***************************************************************************)
C2_FinishedIsTerminal == [][state = "Finished" => state' = "Finished"]_vars

(***************************************************************************)
(* C2, amended.  Once the state is Finished it is never again Inactive or  *)
(* Active.  initialize, on_partial_request and an on_partial_response      *)
(* that returns success leave it Finished; the only change is to Failed,   *)
(* made by on_session_timeout, by an on_node_timeout that returns          *)
(* NodeDisconnected or by an on_partial_response that returns              *)
(* ConsensusUnreachable.                                                   *)
(***************************************************************************)
C2_FinishedOnlyFails ==
    [][state = "Finished" =>
        /\ state' \in {"Finished", "Failed"}
        /\ state' = "Failed" =>
              \/ op'.name = "on_session_timeout"
              \/ op'.name = "on_node_timeout" /\ res' = "NodeDisconnected"
              \/ op'.name = "on_partial_response" /\ res' = "ConsensusUnreachable"
      ]_vars

\* A Finished master refuses a second initialize and stays Finished.
C2_Witness ==
    /\ is_master
    /\ state = "Finished"
    /\ op.name = "initialize"
    /\ res = "InvalidStateForRequest"

(***************************************************************************)
(* C3.  Failed is terminal: once the state is Failed, on a master or on a  *)
(* slave, every later call leaves it Failed.                               *)
(***************************************************************************)
C3_FailedIsTerminal == [][state = "Failed" => state' = "Failed"]_vars

\* A Failed master was handed a partial response and refused it.
C3_Witness ==
    /\ is_master
    /\ state = "Failed"
    /\ active_data.some
    /\ op.name = "on_partial_response"
    /\ op.node \in Requests
    /\ res = "InvalidStateForRequest"

(***************************************************************************)
(* C4.  On a master, once initialize has built active_data, requests,      *)
(* rejects and the keys of responses are pairwise disjoint and their union *)
(* is the node set passed to initialize; no call adds a node to requests.  *)
(***************************************************************************)
C4_Partition ==
    (is_master /\ active_data.some) =>
        /\ Requests \cap Rejects = {}
        /\ Requests \cap Responses = {}
        /\ Rejects \cap Responses = {}
        /\ Requests \cup Rejects \cup Responses = init_nodes

C4_PartitionOfInitNodes ==
    /\ []C4_Partition
    /\ [][active_data.some => active_data'.requests \subseteq active_data.requests]_vars

\* All three sets are in use: a node pending, one rejected, one accepted.
C4_Witness ==
    /\ is_master
    /\ active_data.some
    /\ Requests /= {}
    /\ Rejects /= {}
    /\ Responses /= {}

(***************************************************************************)
(* C5.  On a master in state Active or Finished, on_partial_response from  *)
(* a node that is not in requests (never requested, already responded,     *)
(* rejected or timed out) fails with InvalidNodeForRequest and leaves the  *)
(* state, requests, rejects and responses unchanged.                       *)
(***************************************************************************)
C5_NoDoubleCount ==
    [][(/\ op'.name = "on_partial_response"
        /\ is_master
        /\ state \in {"Active", "Finished"}
        /\ op'.node \notin active_data.requests)
       => (/\ res' = "InvalidNodeForRequest"
           /\ state' = state
           /\ active_data' = active_data)
      ]_vars

\* A second response of a node whose response is already accepted was refused.
C5_Witness ==
    /\ is_master
    /\ state \in {"Active", "Finished"}
    /\ op.name = "on_partial_response"
    /\ op.node \in Responses
    /\ res = "InvalidNodeForRequest"

(***************************************************************************)
(* C6.  A master never waits forever: for a master initialized with at     *)
(* least threshold+1 nodes, if every node of requests eventually delivers  *)
(* a partial response or is reported by on_node_timeout (FairSpec), an     *)
(* Active session eventually is Finished or Failed.                        *)
(***************************************************************************)
C6_MasterNeverWaitsForever ==
    (is_master /\ state = "Active" /\ Cardinality(init_nodes) >= Quorum)
        ~> (state \in {"Finished", "Failed"})

\* A master that asked several nodes has heard of all of them and is done.
C6_Witness ==
    /\ is_master
    /\ state \in {"Finished", "Failed"}
    /\ ~session_timed_out
    /\ Cardinality(init_nodes) >= 2
    /\ Requests = {}
    /\ op.name \in {"on_partial_response", "on_node_timeout"}

(***************************************************************************)
(* C7.  No premature failure: on a master on which on_session_timeout has  *)
(* never been called, the state is Failed only if                          *)
(* |requests| + |responses| < threshold+1.                                 *)
(***************************************************************************)
C7_NoPrematureFailure ==
    (is_master /\ ~session_timed_out /\ state = "Failed")
        => Cardinality(Requests) + Cardinality(Responses) < Quorum

\* A master failed by a rejected response, with an accepted response in hand.
C7_Witness ==
    /\ is_master
    /\ ~session_timed_out
    /\ state = "Failed"
    /\ res = "ConsensusUnreachable"
    /\ Responses /= {}

(***************************************************************************)
(* C8.  Reachability check on a master: a call that moves a node into      *)
(* rejects returns success with the state unchanged if afterwards          *)
(* |requests| + |responses| >= threshold+1, and otherwise sets the state   *)
(* to Failed and returns ConsensusUnreachable (response path) or           *)
(* NodeDisconnected (timeout path); neither error is ever returned without *)
(* the state being Failed afterwards.                                      *)
(* initialize assigns Active before it hands its own response to           *)
(* on_partial_response: that is the state the inner call leaves unchanged. *)
(***************************************************************************)
C8_RejectStep ==
    (is_master /\ active_data'.rejects /= active_data.rejects) =>
        LET before == IF op'.name = "initialize" THEN "Active" ELSE state
            left == Cardinality(active_data'.requests)
                    + Cardinality(DOMAIN active_data'.responses)
        IN  IF left >= threshold + 1
            THEN res' = "Ok" /\ state' = before
            ELSE /\ state' = "Failed"
                 /\ res' = IF op'.name = "on_node_timeout"
                           THEN "NodeDisconnected" ELSE "ConsensusUnreachable"

C8_ReachabilityCheck ==
    /\ [][C8_RejectStep]_vars
    /\ [](res \in {"ConsensusUnreachable", "NodeDisconnected"} => state = "Failed")

\* The timeout of a node with an accepted response broke the quorum.
C8_Witness ==
    /\ is_master
    /\ op.name = "on_node_timeout"
    /\ op.node \in Rejects
    /\ res = "NodeDisconnected"
    /\ state = "Failed"
    /\ Cardinality(Requests) + Cardinality(Responses) = threshold

(***************************************************************************)
(* C9.  On a master, in every state of the session (including before       *)
(* initialize), on_node_timeout(node) for a node that is already in        *)
(* rejects or that was never requested returns success and changes neither *)
(* the state nor requests, rejects or responses.                           *)
(* The code panics on the absent active_data when the call comes before    *)
(* initialize.                                                             *)
(***************************************************************************)
C9_TimeoutIgnored ==
    [][(/\ op'.name = "on_node_timeout"
        /\ is_master
        /\ \/ op'.node \in active_data.rejects
           \/ op'.node \notin init_nodes)
       => (/\ res' = "Ok"
           /\ state' = state
           /\ active_data' = active_data)
      ]_vars

(***************************************************************************)
(* C10.  on_session_timeout, in any state and on either role, sets the     *)
(* state to Failed, never fails, sends no message and leaves requests,     *)
(* rejects and responses unchanged; called again it leaves the state       *)
(* Failed.                                                                 *)
(***************************************************************************)
C10_SessionTimeout ==
    [][op'.name = "on_session_timeout" =>
        /\ state' = "Failed"
        /\ res' = "Ok"
        /\ sent' = <<>>
        /\ active_data' = active_data
        /\ (state = "Failed" => state' = "Failed")
      ]_vars

\* A Finished master with accepted responses and pending requests was timed out.
C10_Witness ==
    /\ is_master
    /\ op.name = "on_session_timeout"
    /\ state = "Failed"
    /\ Cardinality(Responses) >= Quorum
    /\ Requests /= {}

(***************************************************************************)
(* C11.  State guards: initialize when the state is not Inactive,          *)
(* on_partial_response on a master when the state is neither Active nor    *)
(* Finished, and on_partial_request on a slave from the master when the    *)
(* state is neither Inactive nor Finished each fail with                   *)
(* InvalidStateForRequest, send no message and leave the state and         *)
(* requests/rejects/responses unchanged.                                   *)
(***************************************************************************)
C11_StateGuards ==
    [][(\/ op'.name = "initialize" /\ state /= "Inactive"
        \/ op'.name = "on_partial_response" /\ is_master
              /\ state \notin {"Active", "Finished"}
        \/ op'.name = "on_partial_request" /\ ~is_master
              /\ op'.node = master_node_id /\ state \notin {"Inactive", "Finished"})
       => (/\ res' = "InvalidStateForRequest"
           /\ sent' = <<>>
           /\ state' = state
           /\ active_data' = active_data)
      ]_vars

\* A Failed slave was asked by the master and did not answer.
C11_Witness ==
    /\ ~is_master
    /\ state = "Failed"
    /\ op.name = "on_partial_request"
    /\ op.node = master_node_id
    /\ res = "InvalidStateForRequest"
    /\ sent = <<>>

(***************************************************************************)
(* C12.  Role guards: on_partial_request on a slave from a node other than *)
(* the master, on_partial_request on a master from any node, and           *)
(* on_partial_response on a slave each fail with InvalidMessage in every   *)
(* state, send no message and leave the session state unchanged.           *)
(***************************************************************************)
C12_RoleGuards ==
    [][(\/ op'.name = "on_partial_request" /\ ~is_master /\ op'.node /= master_node_id
        \/ op'.name = "on_partial_request" /\ is_master
        \/ op'.name = "on_partial_response" /\ ~is_master)
       => (/\ res' = "InvalidMessage"
           /\ sent' = <<>>
           /\ state' = state
           /\ active_data' = active_data)
      ]_vars

\* A Failed slave was sent a request by a node that is not the master.
C12_Witness ==
    /\ ~is_master
    /\ state = "Failed"
    /\ op.name = "on_partial_request"
    /\ op.node /= master_node_id
    /\ res = "InvalidMessage"

(***************************************************************************)
(* C13.  For every threshold t and node set N with |N| = t+1: once the     *)
(* master has initialized with N and the response of every node of N has   *)
(* passed validation and been delivered (in any order, no node timed out   *)
(* or rejected, no session timeout), the state is Finished and result()    *)
(* succeeds with the aggregate over exactly the t+1 responses of N.        *)
(***************************************************************************)
C13_ExactQuorumFinishes ==
    (/\ is_master
     /\ active_data.some
     /\ Cardinality(init_nodes) = threshold + 1
     /\ Requests = {}
     /\ Rejects = {}
     /\ ~session_timed_out)
    => (/\ state = "Finished"
        /\ Responses = init_nodes
        /\ Cardinality(Responses) = threshold + 1
        /\ result.ok
        /\ result.value = SumOver(active_data.responses, init_nodes))

\* Three nodes for threshold 2, the last of their responses just delivered.
C13_Witness ==
    /\ is_master
    /\ threshold = 2
    /\ Cardinality(init_nodes) = 3
    /\ Responses = init_nodes
    /\ op.name = "on_partial_response"
    /\ state = "Finished"
    /\ result.ok

(***************************************************************************)
(* C14.  On a slave in state Inactive or Finished, every on_partial_request*)
(* from the master sets the state to Finished and sends exactly one        *)
(* partial response (the Executor's processing of that request) to the     *)
(* master; a slave's state is never Active.                                *)
(* This is the claim as stated; when process_partial_request or            *)
(* send_partial_response answers Err nothing is sent.                      *)
(***************************************************************************)
C14_SlaveAlwaysAnswers ==
    /\ [][(/\ op'.name = "on_partial_request"
           /\ ~is_master
           /\ op'.node = master_node_id
           /\ state \in {"Inactive", "Finished"})
          => (/\ state' = "Finished"
              /\ sent' = <<PartialResponseMsg(master_node_id, op'.payload * op'.payload)>>)
         ]_vars
    /\ [](~is_master => state /= "Active")

(***************************************************************************)
(* C14, amended.  On a slave in state Inactive or Finished, every          *)
(* on_partial_request from the master sets the state to Finished; when     *)
(* the Executor's process_partial_request and the Transport's              *)
(* send_partial_response succeed it returns success having sent exactly    *)
(* one partial response (the processing of that request) to the master,    *)
(* and when either fails it returns that error, with the state Finished    *)
(* all the same and no response sent; a slave's state is never Active.     *)
(***************************************************************************)
C14_SlaveAnswersUnlessErr ==
    /\ [][(/\ op'.name = "on_partial_request"
           /\ ~is_master
           /\ op'.node = master_node_id
           /\ state \in {"Inactive", "Finished"})
          => (/\ state' = "Finished"
              /\ active_data' = active_data
              /\ IF op'.fault = "none"
                 THEN /\ res' = "Ok"
                      /\ sent' = <<PartialResponseMsg(master_node_id,
                                                      op'.payload * op'.payload)>>
                 ELSE /\ res' = (IF op'.fault = "process"
                                 THEN "ExecutorError" ELSE "TransportError")
                      /\ sent' = <<>>)
         ]_vars
    /\ [](~is_master => state /= "Active")

\* A slave has answered the master's request.
C14_Witness ==
    /\ ~is_master
    /\ state = "Finished"
    /\ op.name = "on_partial_request"
    /\ res = "Ok"
    /\ Len(sent) = 1
    /\ sent[1].to = master_node_id

(***************************************************************************)
(* C15.  On a slave, on_node_timeout(node) for a node other than the       *)
(* master returns success and leaves the state unchanged;                  *)
(* on_node_timeout(master) sets the state to Failed and fails with         *)
(* NodeDisconnected.                                                       *)
(***************************************************************************)
C15_SlaveNodeTimeout ==
    [][(op'.name = "on_node_timeout" /\ ~is_master) =>
          IF op'.node /= master_node_id
          THEN res' = "Ok" /\ state' = state
          ELSE res' = "NodeDisconnected" /\ state' = "Failed"
      ]_vars

\* A slave that had answered lost its master.
C15_Witness ==
    /\ ~is_master
    /\ op.name = "on_node_timeout"
    /\ op.node = master_node_id
    /\ res = "NodeDisconnected"
    /\ state = "Failed"

(***************************************************************************)
(* C16.  On a master, the active bookkeeping (requests/rejects/responses)  *)
(* exists if and only if the state is Active, Finished or Failed; it is    *)
(* absent on slaves and before initialization, is created exactly once by  *)
(* initialize and is never recreated or reset afterwards.                  *)
(* This is the claim as stated; a master that on_session_timeout fails     *)
(* before initialize is Failed and has no bookkeeping.                     *)
(***************************************************************************)
C16_Created ==
    /\ (~active_data.some /\ active_data'.some) =>
          (op'.name = "initialize" /\ state = "Inactive")
    /\ active_data.some =>
          /\ active_data'.some
          /\ init_nodes' = init_nodes
          /\ op'.name = "initialize" => active_data' = active_data

C16_DataIffStarted ==
    /\ [](is_master => (active_data.some <=> state \in {"Active", "Finished", "Failed"}))
    /\ [](~is_master => ~active_data.some)
    /\ [][C16_Created]_vars

(***************************************************************************)
(* C16, amended.  On a master, the active bookkeeping exists whenever the  *)
(* state is Active or Finished and never while it is Inactive; in state    *)
(* Failed it exists unless on_session_timeout was called before            *)
(* initialize.  It is absent on slaves and before initialization, is       *)
(* created exactly once by initialize and is never recreated or reset      *)
(* afterwards.                                                             *)
(***************************************************************************)
C16_DataOnceInitialized ==
    /\ [](is_master =>
            /\ state \in {"Active", "Finished"} => active_data.some
            /\ state = "Inactive" => ~active_data.some
            /\ (state = "Failed" /\ ~active_data.some) => session_timed_out)
    /\ [](~is_master => ~active_data.some)
    /\ [][C16_Created]_vars

\* A master with its bookkeeping in use is handed a second initialize.
C16_Witness ==
    /\ is_master
    /\ active_data.some
    /\ Rejects /= {}
    /\ Responses /= {}
    /\ op.name = "initialize"
    /\ res = "InvalidStateForRequest"

(***************************************************************************)
(* C17.  A successful initialize(nodes) on an Inactive master sends        *)
(* exactly one partial request to every node of nodes other than self and  *)
(* none to self, and records nodes as requests with empty rejects.  If     *)
(* self is not in nodes the state is Active with requests = nodes; if self *)
(* is in nodes its own response is processed within the same call (self    *)
(* has left requests), so with threshold 0 and a valid own response the    *)
(* call returns with state Finished, while with threshold 0 and nodes not  *)
(* containing self it returns with state Active.                           *)
(***************************************************************************)
C17_SentTo(msgs) == {msgs[i].to : i \in 1..Len(msgs)}

C17_InitializeStep ==
    (op'.name = "initialize" /\ is_master /\ state = "Inactive" /\ res' = "Ok") =>
        LET nodes == op'.nodes
            others == nodes \ {self_node_id}
            after == active_data'
        IN  /\ Len(sent') = Cardinality(others)
            /\ C17_SentTo(sent') = others
            /\ \A i \in 1..Len(sent') :
                  sent'[i].kind = "request" /\ sent'[i].payload = prepare_partial_request
            /\ after.some
            /\ after.requests \cup after.rejects \cup DOMAIN after.responses = nodes
            /\ IF self_node_id \notin nodes
               THEN /\ state' = "Active"
                    /\ after.requests = nodes
                    /\ after.rejects = {}
                    /\ DOMAIN after.responses = {}
               ELSE /\ after.requests = others
                    /\ after.rejects \subseteq {self_node_id}
                    /\ DOMAIN after.responses \subseteq {self_node_id}
                    /\ (threshold = 0 /\ self_node_id \in DOMAIN after.responses)
                          => state' = "Finished"
                    /\ (self_node_id \in DOMAIN after.responses
                          /\ Cardinality(DOMAIN after.responses) < threshold + 1)
                          => state' = "Active"

C17_Initialize == [][C17_InitializeStep]_vars

\* The master initialized with itself and two others and has its own response.
C17_Witness ==
    /\ is_master
    /\ op.name = "initialize"
    /\ res = "Ok"
    /\ op.nodes = {1, 2, 3}
    /\ Len(sent) = 2
    /\ Responses = {self_node_id}
    /\ state = "Active"

(***************************************************************************)
(* C18.  On a master, on_partial_response with a response that passes      *)
(* validation from a node in requests moves that node from requests into   *)
(* responses and returns success; if |responses| < threshold+1 afterwards  *)
(* the state stays Active, otherwise the state is set to Finished.         *)
(* The code breaks this where C1 is broken: a Finished session that        *)
(* on_node_timeout has left with too few responses stays Finished, not     *)
(* Active, when a further response is accepted short of the quorum.        *)
(***************************************************************************)
C18_AcceptStep ==
    (/\ op'.name = "on_partial_response"
     /\ is_master
     /\ state \in {"Active", "Finished"}
     /\ op'.node \in active_data.requests
     /\ op'.fault = "none"
     /\ check_partial_response(op'.payload))
    => (/\ res' = "Ok"
        /\ active_data'.requests = active_data.requests \ {op'.node}
        /\ active_data'.rejects = active_data.rejects
        /\ DOMAIN active_data'.responses = DOMAIN active_data.responses \cup {op'.node}
        /\ active_data'.responses[op'.node] = op'.payload
        /\ IF Cardinality(DOMAIN active_data'.responses) < threshold + 1
           THEN state' = "Active"
           ELSE state' = "Finished")

C18_AcceptedResponse == [][C18_AcceptStep]_vars

(***************************************************************************)
(* C19.  On a master initialized with at least threshold+1 nodes, whenever *)
(* the state is Active, |responses| < threshold+1 and                      *)
(* |requests| + |responses| >= threshold+1, hence requests is non-empty.   *)
(***************************************************************************)
C19_ActiveHasPending ==
    (is_master /\ state = "Active" /\ Cardinality(init_nodes) >= threshold + 1)
    => (/\ Cardinality(Responses) < threshold + 1
        /\ Cardinality(Requests) + Cardinality(Responses) >= threshold + 1
        /\ Requests /= {})

\* An Active master one response short of its quorum, one node written off.
C19_Witness ==
    /\ is_master
    /\ state = "Active"
    /\ threshold >= 1
    /\ Cardinality(Responses) = threshold
    /\ Rejects /= {}

(***************************************************************************)
(* C20.  On a master, rejects only grows: once a node is in rejects (by a  *)
(* failed validation or a timeout) it never leaves rejects and is never    *)
(* again a key of responses, so it cannot contribute to result().          *)
(***************************************************************************)
C20_RejectsOnlyGrows ==
    /\ [][active_data.rejects \subseteq active_data'.rejects]_vars
    /\ [](Rejects \cap Responses = {})
    /\ [][active_data.rejects \cap DOMAIN active_data'.responses = {}]_vars

\* A node whose response had been accepted was written off by a timeout.
C20_Witness ==
    /\ is_master
    /\ op.name = "on_node_timeout"
    /\ op.node \in Rejects
    /\ res = "Ok"
    /\ Responses /= {}
    /\ Cardinality(Rejects) >= 2

=============================================================================
